---- MODULE Spec2Model ----
(***************************************************************************)
(* Sanka BitTorrent tracker: the per-torrent swarm state (src/torrent.rs), *)
(* the private tracker's delta buffer (src/private/mod.rs) and the request *)
(* router (src/route.rs).                                                  *)
(***************************************************************************)
EXTENDS Integers, Sequences, FiniteSets, TLC

VARIABLES
    \* ---- Torrent (src/torrent.rs:9-15) ----
    snatches,      \* Torrent.snatches
    seeders,       \* Torrent.seeders   : peer_id -> Peer
    leechers,      \* Torrent.leechers  : peer_id -> Peer
    last_action,   \* Torrent.last_action
    now,           \* the reading of SteadyTime::now()
    call,          \* the last Torrent operation called, with its arguments
    ret,           \* what that operation returned
    \* ---- PrivateTracker (src/private/mod.rs:7-11) ----
    deltas,        \* the Vec<Delta> inside PrivateTracker.deltas
    mutex,         \* the thread holding the Mutex of deltas, or Free
    pc,            \* where each thread is in add_announce or flush
    local,         \* add_announce: its `delta` argument; flush: its local `deltas`
    issued,        \* how many deltas have been passed to add_announce
    flushes,       \* how many flush calls have been made
    swapped,       \* history: the Vec each flush took at its swap, in swap order
    pushedAfter,   \* history: for each pushed delta, the number of swaps before its push
    poisoned,      \* the poison flag of the Mutex of deltas
    \* ---- RequestHandler (src/route.rs:18-42) ----
    req,           \* the request handed to handle, None before the first one
    sent,          \* the body passed to res.send, None if nothing was sent
    panicked,      \* handle unwound with a panic
    tracker_call,  \* the call handle made on self.tracker, None if it made none
    \* ---- v4_to_bytes, v6_to_bytes (src/torrent.rs:200-214) ----
    endpoint,      \* the socket address handed to v4_to_bytes or v6_to_bytes
    encoded        \* the Vec<u8> it returned

tvars == <<snatches, seeders, leechers, last_action, now, call, ret>>
gvars == <<deltas, mutex, pc, local, issued, flushes, swapped, pushedAfter,
           poisoned>>

rvars == <<req, sent, panicked, tracker_call>>

cvars == <<endpoint, encoded>>

vars == <<tvars, gvars, rvars, cvars>>

\* ------------------------------------------------------------------ bounds
MaxNow == 3601          \* the clock stops advancing here
MaxSnatches == 2        \* Completed announces are accepted while snatches < MaxSnatches
MaxAmount == 2          \* get_peers is asked for 0..MaxAmount peers
MaxDeltas == 3          \* add_announce is called at most MaxDeltas times
MaxFlushes == 2         \* flush is called at most MaxFlushes times

\* ------------------------------------------------------- program constants
Window == 3600          \* Duration::seconds(3600)

PeerIds == {"P1", "P2"}
Actions == {"Seeding", "Leeching", "Completed", "Stopped"}
ClockSteps == {Window, Window + 1}

\* Option<T>: None is the empty sequence, Some(x) the one-element sequence.
None == <<>>
Some(x) == <<x>>

\* The endpoints a client announces: one fixed address per peer and family.
Addr4(p) == IF p = "P1" THEN [ip |-> <<203, 0, 113, 5>>, port |-> 6881]
                        ELSE [ip |-> <<198, 51, 100, 7>>, port |-> 51413]
Addr6(p) == IF p = "P1" THEN [ip |-> <<8193, 3512, 0, 0, 0, 0, 0, 1>>, port |-> 6881]
                        ELSE [ip |-> <<8193, 3512, 0, 0, 0, 0, 0, 258>>, port |-> 51413]

\* The endpoint pairs (ipv4, ipv6) a peer announces: P1 is a dual-stack host
\* that announces its IPv4 endpoint with or without the IPv6 one, P2 announces
\* an IPv6 endpoint or none. Together they cover the four arms of get_ips.
Endpoints(p) ==
    IF p = "P1" THEN {<<Some(Addr4(p)), Some(Addr6(p))>>, <<Some(Addr4(p)), None>>}
                ELSE {<<None, Some(Addr6(p))>>, <<None, None>>}

\* The Announce values handed to Torrent::update.
Announces ==
    UNION { { [peer_id |-> p, action |-> a, ipv4 |-> e[1], ipv6 |-> e[2]] :
                a \in Actions, e \in Endpoints(p) } : p \in PeerIds }

\* ------------------------------------------------------------------ helpers
Remove(m, k) == [q \in DOMAIN m \ {k} |-> m[q]]
Insert(m, k, v) == [q \in DOMAIN m \cup {k} |-> IF q = k THEN v ELSE m[q]]
EmptyMap == [q \in {} |-> None]

\* Every order in which a HashMap with key set S can be iterated.
Orders(S) ==
    { o \in [1..Cardinality(S) -> S] : \A i, j \in 1..Cardinality(S) : o[i] = o[j] => i = j }

\* ------------------------------------------------------- Peer and Delta
\* peer.rs is not among the sources: a Peer keeps the endpoints it was created
\* with and the time of its last announce; a Delta names the peer and says
\* whether it is the empty Delta of Delta::new or the change peer.update found.
PeerNew(a, t) == [ipv4 |-> a.ipv4, ipv6 |-> a.ipv6, last_action |-> t]

DeltaNew(id) == [peer_id |-> id, fresh |-> TRUE]

\* peer.update(&a): the refreshed peer and the Delta it returns.
PeerUpdate(peer, a, t) ==
    [peer  |-> [peer EXCEPT !.last_action = t],
     delta |-> [peer_id |-> a.peer_id, fresh |-> FALSE]]

\* ------------------------------------------------------- Torrent::update
\* Each arm takes the torrent T = [snatches, seeders, leechers], the announce
\* and the clock, and yields the torrent after the call and the Delta returned.
UpdateSeeding(T, a, t) ==
    IF a.peer_id \in DOMAIN T.seeders
    THEN LET u == PeerUpdate(T.seeders[a.peer_id], a, t)
         IN  [T EXCEPT !.seeders = Insert(T.seeders, a.peer_id, u.peer)] @@ [delta |-> u.delta]
    ELSE [T EXCEPT !.seeders = Insert(T.seeders, a.peer_id, PeerNew(a, t))]
            @@ [delta |-> DeltaNew(a.peer_id)]

\* Leeching whose insert of a new peer goes to seeders.
UpdateLeeching_IntoSeeders(T, a, t) ==
    IF a.peer_id \in DOMAIN T.leechers
    THEN LET u == PeerUpdate(T.leechers[a.peer_id], a, t)
         IN  [T EXCEPT !.leechers = Insert(T.leechers, a.peer_id, u.peer)] @@ [delta |-> u.delta]
    ELSE [T EXCEPT !.seeders = Insert(T.seeders, a.peer_id, PeerNew(a, t))]
            @@ [delta |-> DeltaNew(a.peer_id)]

UpdateLeeching(T, a, t) ==
    IF a.peer_id \in DOMAIN T.leechers
    THEN LET u == PeerUpdate(T.leechers[a.peer_id], a, t)
         IN  [T EXCEPT !.leechers = Insert(T.leechers, a.peer_id, u.peer)] @@ [delta |-> u.delta]
    ELSE [T EXCEPT !.leechers = Insert(T.leechers, a.peer_id, PeerNew(a, t))]
            @@ [delta |-> DeltaNew(a.peer_id)]

\* Completed that reads the leecher entry without taking it out of leechers.
UpdateCompleted_KeepsLeecher(T, a, t) ==
    LET peer == IF a.peer_id \in DOMAIN T.leechers THEN T.leechers[a.peer_id]
                                                   ELSE PeerNew(a, t)
        u    == PeerUpdate(peer, a, t)
    IN  [snatches |-> T.snatches + 1,
         seeders  |-> Insert(T.seeders, a.peer_id, u.peer),
         leechers |-> T.leechers,
         delta    |-> u.delta]

UpdateCompleted(T, a, t) ==
    LET peer == IF a.peer_id \in DOMAIN T.leechers THEN T.leechers[a.peer_id]
                                                   ELSE PeerNew(a, t)
        u    == PeerUpdate(peer, a, t)
    IN  [snatches |-> T.snatches + 1,
         seeders  |-> Insert(T.seeders, a.peer_id, u.peer),
         leechers |-> Remove(T.leechers, a.peer_id),
         delta    |-> u.delta]

\* Stopped that answers for a peer found in neither map as for a peer it has
\* just updated.
UpdateStopped_UpdatesAbsent(T, a, t) ==
    LET l == IF a.peer_id \in DOMAIN T.leechers THEN Some(T.leechers[a.peer_id]) ELSE None
        s == IF a.peer_id \in DOMAIN T.seeders THEN Some(T.seeders[a.peer_id]) ELSE None
    IN  [snatches |-> T.snatches,
         seeders  |-> Remove(T.seeders, a.peer_id),
         leechers |-> Remove(T.leechers, a.peer_id),
         delta    |-> IF l # None THEN PeerUpdate(l[1], a, t).delta
                      ELSE IF s # None THEN PeerUpdate(s[1], a, t).delta
                      ELSE PeerUpdate(PeerNew(a, t), a, t).delta]

\* Stopped that looks in seeders only when the peer was not found in leechers.
UpdateStopped_FirstMatch(T, a, t) ==
    IF a.peer_id \in DOMAIN T.leechers
    THEN [snatches |-> T.snatches,
          seeders  |-> T.seeders,
          leechers |-> Remove(T.leechers, a.peer_id),
          delta    |-> PeerUpdate(T.leechers[a.peer_id], a, t).delta]
    ELSE IF a.peer_id \in DOMAIN T.seeders
    THEN [snatches |-> T.snatches,
          seeders  |-> Remove(T.seeders, a.peer_id),
          leechers |-> T.leechers,
          delta    |-> PeerUpdate(T.seeders[a.peer_id], a, t).delta]
    ELSE [snatches |-> T.snatches, seeders |-> T.seeders, leechers |-> T.leechers,
          delta |-> DeltaNew(a.peer_id)]

UpdateStopped(T, a, t) ==
    LET l == IF a.peer_id \in DOMAIN T.leechers THEN Some(T.leechers[a.peer_id]) ELSE None
        s == IF a.peer_id \in DOMAIN T.seeders THEN Some(T.seeders[a.peer_id]) ELSE None
    IN  [snatches |-> T.snatches,
         seeders  |-> Remove(T.seeders, a.peer_id),
         leechers |-> Remove(T.leechers, a.peer_id),
         delta    |-> IF l # None THEN PeerUpdate(l[1], a, t).delta
                      ELSE IF s # None THEN PeerUpdate(s[1], a, t).delta
                      ELSE DeltaNew(a.peer_id)]

update(T, a, t) ==
    CASE a.action = "Seeding"   -> UpdateSeeding(T, a, t)
      [] a.action = "Leeching"  -> UpdateLeeching(T, a, t)
      [] a.action = "Completed" -> UpdateCompleted(T, a, t)
      [] a.action = "Stopped"   -> UpdateStopped(T, a, t)

\* ---------------------------------------------------------------- PeerCodec
\* u16_to_u8 with the low byte first.
u16_to_u8_LowFirst(i) == <<i % 256, i \div 256>>

u16_to_u8(i) == <<i \div 256, i % 256>>

v4_to_bytes(s) == s.ip \o u16_to_u8(s.port)

RECURSIVE segments_to_bytes(_)
segments_to_bytes(segs) ==
    IF segs = <<>> THEN <<>>
    ELSE u16_to_u8(Head(segs)) \o segments_to_bytes(Tail(segs))

v6_to_bytes(s) == segments_to_bytes(s.ip) \o u16_to_u8(s.port)

\* ----------------------------------------------------- Torrent::get_peers
\* get_ips appends to the two byte vectors; `order` is the order in which
\* peer_dict.values() yields the peers. The result carries the vectors, the
\* count returned and (for the properties only) the ids of the peers taken.
RECURSIVE ips_loop(_, _, _, _, _)
ips_loop(out, peer_dict, order, i, wanted) ==
    IF i > Len(order) \/ out.count = wanted THEN out
    ELSE LET peer == peer_dict[order[i]]
             nxt  == CASE peer.ipv4 # None /\ peer.ipv6 # None ->
                            [peers  |-> out.peers \o v4_to_bytes(peer.ipv4[1]),
                             peers6 |-> out.peers6 \o v6_to_bytes(peer.ipv6[1]),
                             count  |-> out.count + 1,
                             picked |-> Append(out.picked, order[i])]
                       [] peer.ipv4 # None /\ peer.ipv6 = None ->
                            [peers  |-> out.peers \o v4_to_bytes(peer.ipv4[1]),
                             peers6 |-> out.peers6,
                             count  |-> out.count + 1,
                             picked |-> Append(out.picked, order[i])]
                       [] peer.ipv4 = None /\ peer.ipv6 # None ->
                            [peers  |-> out.peers,
                             peers6 |-> out.peers6 \o v6_to_bytes(peer.ipv6[1]),
                             count  |-> out.count + 1,
                             picked |-> Append(out.picked, order[i])]
                       [] OTHER -> out
         IN  ips_loop(nxt, peer_dict, order, i + 1, wanted)

\* get_ips that stops one peer late.
get_ips_OneMore(peers, peers6, peer_dict, wanted, order) ==
    ips_loop([peers |-> peers, peers6 |-> peers6, count |-> 0, picked |-> <<>>],
             peer_dict, order, 1, wanted + 1)

get_ips(peers, peers6, peer_dict, wanted, order) ==
    ips_loop([peers |-> peers, peers6 |-> peers6, count |-> 0, picked |-> <<>>],
             peer_dict, order, 1, wanted)

Tag(role, ids) == [i \in 1..Len(ids) |-> [role |-> role, id |-> ids[i]]]

\* get_peers that serves every action but Stopped as it serves Leeching,
\* seeders first.
get_peers_SeedersFirst(T, amount, action, so, lo) ==
    IF action = "Stopped"
    THEN [peers4 |-> <<>>, peers6 |-> <<>>, sel |-> <<>>]
    ELSE LET first == get_ips(<<>>, <<>>, T.seeders, amount, so)
         IN  IF first.count = amount
             THEN [peers4 |-> first.peers, peers6 |-> first.peers6,
                   sel |-> Tag("seeder", first.picked)]
             ELSE LET second == get_ips(first.peers, first.peers6, T.leechers,
                                        amount - first.count, lo)
                  IN  [peers4 |-> second.peers, peers6 |-> second.peers6,
                       sel |-> Tag("seeder", first.picked) \o Tag("leecher", second.picked)]

\* so and lo are the iteration orders of seeders and leechers. sel lists the
\* peers taken, in the order their endpoints were appended.
get_peers(T, amount, action, so, lo) ==
    CASE action = "Leeching" ->
            LET first == get_ips(<<>>, <<>>, T.seeders, amount, so)
            IN  IF first.count = amount
                THEN [peers4 |-> first.peers, peers6 |-> first.peers6,
                      sel |-> Tag("seeder", first.picked)]
                ELSE LET second == get_ips(first.peers, first.peers6, T.leechers,
                                           amount - first.count, lo)
                     IN  [peers4 |-> second.peers, peers6 |-> second.peers6,
                          sel |-> Tag("seeder", first.picked) \o Tag("leecher", second.picked)]
      [] action = "Stopped" ->
            [peers4 |-> <<>>, peers6 |-> <<>>, sel |-> <<>>]
      [] OTHER ->
            LET first == get_ips(<<>>, <<>>, T.leechers, amount, lo)
            IN  IF first.count = amount
                THEN [peers4 |-> first.peers, peers6 |-> first.peers6,
                      sel |-> Tag("leecher", first.picked)]
                ELSE LET second == get_ips(first.peers, first.peers6, T.seeders,
                                           amount - first.count, so)
                     IN  [peers4 |-> second.peers, peers6 |-> second.peers6,
                          sel |-> Tag("leecher", first.picked) \o Tag("seeder", second.picked)]

\* --------------------------------------------------------- Torrent::reap
\* reap runs under the torrent's write lock; the clock is read once for it.
\* The comparison with >= in place of >.
Stale_AtWindow(peer, t) == t - peer.last_action >= Window

Stale(peer, t) == t - peer.last_action > Window

reap_map(m, t) == [q \in {k \in DOMAIN m : ~Stale(m[k], t)} |-> m[q]]

reap(T, t) ==
    [snatches |-> T.snatches,
     seeders  |-> reap_map(T.seeders, t),
     leechers |-> reap_map(T.leechers, t)]

\* ------------------------------------------------------------ the torrent
Torrent == [snatches |-> snatches, seeders |-> seeders, leechers |-> leechers]

\* What an update call found: the announcing peer's membership, the snatch
\* counter, and whether the announce repeats the one of the call before it.
Found(a) == [in_seeders  |-> a.peer_id \in DOMAIN seeders,
             in_leechers |-> a.peer_id \in DOMAIN leechers,
             snatches    |-> snatches,
             repeat      |-> call.op = "update" /\ call.a = a]

InitTorrent ==
    /\ snatches = 0
    /\ seeders = EmptyMap
    /\ leechers = EmptyMap
    /\ last_action = 0
    /\ now = 0
    /\ call = [op |-> "new"]
    /\ ret = None

\* torrent.update(a): call.pre keeps what the call found.
Update(a) ==
    /\ a.action = "Completed" => snatches < MaxSnatches
    /\ LET r == update(Torrent, a, now)
       IN  /\ snatches' = r.snatches
           /\ seeders' = r.seeders
           /\ leechers' = r.leechers
           /\ ret' = r.delta
    /\ last_action' = now
    /\ call' = [op |-> "update", a |-> a, pre |-> Found(a)]
    /\ UNCHANGED <<now, gvars, rvars, cvars>>

GetPeers(amount, action) ==
    /\ \E so \in Orders(DOMAIN seeders), lo \in Orders(DOMAIN leechers) :
            ret' = get_peers(Torrent, amount, action, so, lo)
    /\ call' = [op |-> "get_peers", amount |-> amount, action |-> action]
    /\ UNCHANGED <<snatches, seeders, leechers, last_action, now, gvars, rvars, cvars>>

\* torrent.reap(): call.pre keeps the two maps as they were before the call.
Reap ==
    /\ LET r == reap(Torrent, now)
       IN  /\ seeders' = r.seeders
           /\ leechers' = r.leechers
           /\ snatches' = r.snatches
    /\ call' = [op |-> "reap", pre |-> [seeders |-> seeders, leechers |-> leechers]]
    /\ ret' = None
    /\ UNCHANGED <<last_action, now, gvars, rvars, cvars>>

\* Time passes between two calls; what the last call returned is gone.
Tick(d) ==
    /\ now + d <= MaxNow
    /\ now' = now + d
    /\ call' = [op |-> "idle"]
    /\ ret' = None
    /\ UNCHANGED <<snatches, seeders, leechers, last_action, gvars, rvars, cvars>>

NextTorrent ==
    \/ \E a \in Announces : Update(a)
    \/ \E amount \in 0..MaxAmount, action \in Actions : GetPeers(amount, action)
    \/ Reap
    \/ \E d \in ClockSteps : Tick(d)

\* ------------------------------------------------- PrivateTracker.deltas
\* The request threads that call add_announce and the threads that call flush.
Adders == {"a1", "a2"}
Flushers == {"f1", "f2"}
Threads == Adders \cup Flushers
Free == "free"

\* A Delta in the buffer is named by the number of the add_announce call that
\* passed it.
InitGate ==
    /\ deltas = <<>>
    /\ mutex = Free
    /\ pc = [t \in Threads |-> "idle"]
    /\ local = [t \in Threads |-> <<>>]
    /\ issued = 0
    /\ flushes = 0
    /\ swapped = <<>>
    /\ pushedAfter = EmptyMap
    /\ poisoned = FALSE

\* A lock() whose Err(poisoned) is not recovered from: the caller never gets
\* the guard of a poisoned mutex.
lock_NoRecovery(t) ==
    /\ mutex = Free /\ ~poisoned
    /\ mutex' = t
    /\ UNCHANGED poisoned

\* self.deltas.lock(): blocks until the mutex is free; both arms of the match
\* (Ok(guard) and Err(poisoned) => poisoned.into_inner()) yield the guard.
\* The flag stays set once the mutex is poisoned.
lock(t) ==
    /\ mutex = Free
    /\ mutex' = t
    /\ UNCHANGED poisoned

\* The guard goes out of scope.
unlock(t) ==
    /\ mutex = t
    /\ mutex' = Free

\* add_announce(delta) is entered with a new delta.
AddAnnounceCall(t) ==
    /\ pc[t] = "idle" /\ issued < MaxDeltas
    /\ issued' = issued + 1
    /\ local' = [local EXCEPT ![t] = <<issued + 1>>]
    /\ pc' = [pc EXCEPT ![t] = "lock"]
    /\ UNCHANGED <<deltas, mutex, flushes, swapped, pushedAfter, poisoned,
                 tvars, rvars, cvars>>

AddAnnounceLock(t) ==
    /\ pc[t] = "lock" /\ t \in Adders
    /\ lock(t)
    /\ pc' = [pc EXCEPT ![t] = "push"]
    /\ UNCHANGED <<deltas, local, issued, flushes, swapped, pushedAfter, tvars, rvars, cvars>>

\* deltas.push(delta)
AddAnnouncePush(t) ==
    /\ pc[t] = "push" /\ mutex = t
    /\ deltas' = Append(deltas, local[t][1])
    /\ pushedAfter' = Insert(pushedAfter, local[t][1], Len(swapped))
    /\ local' = [local EXCEPT ![t] = <<>>]
    /\ pc' = [pc EXCEPT ![t] = "unlock"]
    /\ UNCHANGED <<mutex, issued, flushes, swapped, poisoned,
                 tvars, rvars, cvars>>

AddAnnounceReturn(t) ==
    /\ pc[t] = "unlock" /\ t \in Adders
    /\ unlock(t)
    /\ pc' = [pc EXCEPT ![t] = "idle"]
    /\ UNCHANGED <<deltas, local, issued, flushes, swapped, pushedAfter, poisoned,
                 tvars, rvars, cvars>>

\* flush() is entered: let mut deltas = Vec::new();
FlushCall(t) ==
    /\ pc[t] = "idle" /\ flushes < MaxFlushes
    /\ flushes' = flushes + 1
    /\ local' = [local EXCEPT ![t] = <<>>]
    /\ pc' = [pc EXCEPT ![t] = "lock"]
    /\ UNCHANGED <<deltas, mutex, issued, swapped, pushedAfter, poisoned,
                 tvars, rvars, cvars>>

FlushLock(t) ==
    /\ pc[t] = "lock" /\ t \in Flushers
    /\ lock(t)
    /\ pc' = [pc EXCEPT ![t] = "swap"]
    /\ UNCHANGED <<deltas, local, issued, flushes, swapped, pushedAfter, tvars, rvars, cvars>>

\* A swap that copies the buffer into the local and leaves the buffer as it is.
swap_Copy(mine, theirs) == [mine |-> theirs, theirs |-> theirs]

\* mem::swap(&mut deltas, &mut *old_deltas)
swap(mine, theirs) == [mine |-> theirs, theirs |-> mine]

FlushSwap(t) ==
    /\ pc[t] = "swap" /\ mutex = t
    /\ LET r == swap(local[t], deltas)
       IN  /\ local' = [local EXCEPT ![t] = r.mine]
           /\ deltas' = r.theirs
           /\ swapped' = Append(swapped, r.mine)
    /\ pc' = [pc EXCEPT ![t] = "unlock"]
    /\ UNCHANGED <<mutex, issued, flushes, pushedAfter, poisoned,
                 tvars, rvars, cvars>>

\* The inner block ends and the guard is dropped.
FlushUnlock(t) ==
    /\ pc[t] = "unlock" /\ t \in Flushers
    /\ unlock(t)
    /\ pc' = [pc EXCEPT ![t] = "return"]
    /\ UNCHANGED <<deltas, local, issued, flushes, swapped, pushedAfter, poisoned,
                 tvars, rvars, cvars>>

\* flush returns; its local Vec is dropped.
FlushReturn(t) ==
    /\ pc[t] = "return"
    /\ local' = [local EXCEPT ![t] = <<>>]
    /\ pc' = [pc EXCEPT ![t] = "idle"]
    /\ UNCHANGED <<deltas, mutex, issued, flushes, swapped, pushedAfter, poisoned,
                 tvars, rvars, cvars>>

NextGate ==
    \/ \E t \in Adders :
          \/ AddAnnounceCall(t)
          \/ AddAnnounceLock(t)
          \/ AddAnnouncePush(t)
          \/ AddAnnounceReturn(t)
    \/ \E t \in Flushers :
          \/ FlushCall(t)
          \/ FlushLock(t)
          \/ FlushSwap(t)
          \/ FlushUnlock(t)
          \/ FlushReturn(t)

\* The thread holding the guard panics: unwinding drops the guard, which marks
\* the mutex poisoned and releases it. The thread's call never returns.
PanicWhileHolding(t) ==
    /\ mutex = t
    /\ poisoned' = TRUE
    /\ mutex' = Free
    /\ pc' = [pc EXCEPT ![t] = "dead"]
    /\ UNCHANGED <<deltas, local, issued, flushes, swapped, pushedAfter, tvars, rvars, cvars>>

\* What thread t does next in add_announce or flush once it is called.
Proceed(t) ==
    \/ AddAnnounceLock(t)
    \/ AddAnnouncePush(t)
    \/ AddAnnounceReturn(t)
    \/ FlushLock(t)
    \/ FlushSwap(t)
    \/ FlushUnlock(t)
    \/ FlushReturn(t)

NextPoison ==
    \/ NextGate
    \/ \E t \in Threads : PanicWhileHolding(t)

\* ------------------------------------------------------------ route.rs
BadRequest == "BadRequest"
BadAction == "BadAction"
Ok(x) == [ok |-> TRUE, val |-> x]
Err(e) == [ok |-> FALSE, err |-> e]

\* str::parse for the unsigned integer types: the decimal numerals among the
\* parameter values and their values; any other text is no numeral.
Numerals == {"0", "25", "26", "99", "255", "256", "1000", "6881", "70000"}
NumeralValue(text) ==
    CASE text = "0" -> 0 [] text = "25" -> 25 [] text = "26" -> 26
      [] text = "99" -> 99 [] text = "255" -> 255 [] text = "256" -> 256
      [] text = "1000" -> 1000 [] text = "6881" -> 6881 [] text = "70000" -> 70000

\* Whether n fits the unsigned type of that width; the numerals above are all
\* below 2^31, so each fits a type of 31 bits or more.
Fits(n, bits) == bits >= 31 \/ n < 2 ^ bits

ParseUnsigned(text, bits) ==
    IF text \in Numerals /\ Fits(NumeralValue(text), bits)
    THEN Ok(NumeralValue(text)) ELSE Err(BadRequest)

\* str::parse::<IpAddr>: the address literals among the values.
IpLiterals == {"198.51.100.7", "198.51.100.9", "192.0.2.4", "2001:db8::9", "2001:db8::6"}
IpValue(text) ==
    CASE text = "198.51.100.7" -> [v |-> 4, ip |-> <<198, 51, 100, 7>>]
      [] text = "198.51.100.9" -> [v |-> 4, ip |-> <<198, 51, 100, 9>>]
      [] text = "192.0.2.4"    -> [v |-> 4, ip |-> <<192, 0, 2, 4>>]
      [] text = "2001:db8::9"  -> [v |-> 6, ip |-> <<8193, 3512, 0, 0, 0, 0, 0, 9>>]
      [] text = "2001:db8::6"  -> [v |-> 6, ip |-> <<8193, 3512, 0, 0, 0, 0, 0, 6>>]

ParseIp(text) == IF text \in IpLiterals THEN Ok(IpValue(text)) ELSE Err(BadRequest)

\* SocketAddr::new(ip, port)
SocketAddrNew(ip, port) == [v |-> ip.v, ip |-> ip.ip, port |-> port]

\* str::parse::<SocketAddr>: the address:port literals among the values.
SocketLiterals == {"192.0.2.4:7000", "[2001:db8::6]:7000"}
SocketValue(text) ==
    CASE text = "192.0.2.4:7000"     -> [v |-> 4, ip |-> <<192, 0, 2, 4>>, port |-> 7000]
      [] text = "[2001:db8::6]:7000" -> [v |-> 6, ip |-> <<8193, 3512, 0, 0, 0, 0, 0, 6>>,
                                         port |-> 7000]

ParseSocket(text) == IF text \in SocketLiterals THEN Ok(SocketValue(text)) ELSE Err(BadRequest)

\* res.parse::<T>() for the types get_from_params is used at.
Parse(T, text) ==
    CASE T = "String"     -> Ok(text)
      [] T = "u64"        -> ParseUnsigned(text, 64)
      [] T = "u16"        -> ParseUnsigned(text, 16)
      [] T = "u8"         -> ParseUnsigned(text, 8)
      [] T = "IpAddr"     -> ParseIp(text)
      [] T = "SocketAddr" -> ParseSocket(text)

get_from_params(map, key, T) ==
    IF key \in DOMAIN map
    THEN LET val == Parse(T, map[key])
         IN  IF val.ok THEN Ok(val.val) ELSE Err(BadRequest)
    ELSE Err(BadRequest)

get_socket(params, key, port) ==
    LET ip     == get_from_params(params, key, "IpAddr")
        socket == get_from_params(params, key, "SocketAddr")
    IN  CASE ~ip.ok /\ ~socket.ok -> None
          [] ip.ok /\ ~socket.ok  -> Some(SocketAddrNew(ip.val, port))
          [] ~ip.ok /\ socket.ok  -> Some(socket.val)
          [] OTHER                -> None

\* get_action with the two roles exchanged.
get_action_Exchanged(left) == IF left = 0 THEN "Leeching" ELSE "Seeding"

get_action(left) == IF left = 0 THEN "Seeding" ELSE "Leeching"

\* The numwant of an announce without the limit of 25.
numwant_of_Unlimited(amount) == IF amount.ok THEN amount.val ELSE 25

\* The match on the numwant parameter: amount is what get_from_params::<u8>
\* returned.
numwant_of(amount) ==
    IF amount.ok
    THEN (IF amount.val > 25 THEN 25 ELSE amount.val)
    ELSE 25

\* String::from_utf8 of the first X-Forwarded-For line.
NotUtf8 == "<not UTF-8>"
from_utf8(bytes) == IF bytes = NotUtf8 THEN Err(BadRequest) ELSE Ok(bytes)

\* get_ips with the forwarded header taken before the ip parameter.
route_get_ips_ForwardedFirst(params, r, port) ==
    LET given == get_from_params(params, "ip", "IpAddr")
        param_ip == IF given.ok THEN SocketAddrNew(given.val, port) ELSE r.remote_addr
        ip ==
            IF r.x_forwarded_for # None
            THEN LET ip_str == from_utf8(r.x_forwarded_for[1])
                 IN  IF ip_str.ok
                     THEN LET fwd == ParseIp(ip_str.val)
                          IN  IF fwd.ok THEN SocketAddrNew(fwd.val, port) ELSE param_ip
                     ELSE param_ip
            ELSE param_ip
    IN  IF ip.v = 4
        THEN LET sock == get_socket(params, "ipv6", port)
                 v6   == IF sock # None /\ sock[1].v = 6 THEN Some(sock[1]) ELSE None
             IN  <<Some(ip), v6>>
        ELSE LET sock == get_socket(params, "ipv4", port)
                 v4   == IF sock # None /\ sock[1].v = 4 THEN Some(sock[1]) ELSE None
             IN  <<v4, Some(ip)>>

\* route.rs get_ips: the pair (ipv4, ipv6) of an announce.
route_get_ips(params, r, port) ==
    LET default_ip ==
            IF r.x_forwarded_for # None
            THEN LET ip_str == from_utf8(r.x_forwarded_for[1])
                 IN  IF ip_str.ok
                     THEN LET ip == ParseIp(ip_str.val)
                          IN  IF ip.ok THEN SocketAddrNew(ip.val, port) ELSE r.remote_addr
                     ELSE r.remote_addr
            ELSE r.remote_addr
        given == get_from_params(params, "ip", "IpAddr")
        ip == IF given.ok THEN SocketAddrNew(given.val, port) ELSE default_ip
    IN  IF ip.v = 4
        THEN LET sock == get_socket(params, "ipv6", port)
                 v6   == IF sock # None /\ sock[1].v = 6 THEN Some(sock[1]) ELSE None
             IN  <<Some(ip), v6>>
        ELSE LET sock == get_socket(params, "ipv4", port)
                 v4   == IF sock # None /\ sock[1].v = 4 THEN Some(sock[1]) ELSE None
             IN  <<v4, Some(ip)>>

\* The HashMap built from the parsed pairs: a later pair replaces an earlier
\* one with the same key.
params_of(param_vec) ==
    [key \in {param_vec[i][1] : i \in 1..Len(param_vec)} |->
        LET last == CHOOSE i \in 1..Len(param_vec) :
                        /\ param_vec[i][1] = key
                        /\ \A j \in (i + 1)..Len(param_vec) : param_vec[j][1] # key
        IN  param_vec[last][2]]

\* The one element of a singleton set. {e : x \in {v}} is e with x bound to
\* the value of v, computed once.
The(S) == CHOOSE x \in S : TRUE

\* request_to_announce after the HashMap params is built.
announce_from(r, params) ==
    LET info_hash == get_from_params(params, "info_hash", "String")
        pid       == get_from_params(params, "peer_id", "String")
        ul        == get_from_params(params, "uploaded", "u64")
        dl        == get_from_params(params, "downloaded", "u64")
        left      == get_from_params(params, "left", "u64")
        port      == get_from_params(params, "port", "u16")
    IN  IF ~info_hash.ok THEN Err(info_hash.err)
        ELSE IF ~pid.ok THEN Err(pid.err)
        ELSE IF ~ul.ok THEN Err(ul.err)
        ELSE IF ~dl.ok THEN Err(dl.err)
        ELSE IF ~left.ok THEN Err(left.err)
        ELSE IF ~port.ok THEN Err(port.err)
        ELSE
        LET ev      == get_from_params(params, "event", "String")
            action  == IF ev.ok
                       THEN CASE ev.val = "started"   -> get_action(left.val)
                              [] ev.val = "stopped"   -> "Stopped"
                              [] ev.val = "completed" -> "Completed"
                              [] OTHER                -> get_action(left.val)
                       ELSE get_action(left.val)
            numwant == numwant_of(get_from_params(params, "numwant", "u8"))
        IN  The({ Ok([info_hash |-> info_hash.val, peer_id |-> pid.val,
                      ipv4 |-> ips[1], ipv6 |-> ips[2],
                      ul |-> ul.val, dl |-> dl.val, left |-> left.val,
                      action |-> action, numwant |-> numwant]) :
                  ips \in {route_get_ips(params, r, port.val)} })

request_to_announce(r, param_vec) ==
    The({ announce_from(r, params) : params \in {params_of(param_vec)} })

\* path.find('?'): the index of the first '?' of the path. A path is the
\* sequence of its pieces, "?" a piece of its own.
find(path, c) ==
    IF \E i \in 1..Len(path) : path[i] = c
    THEN Some(CHOOSE i \in 1..Len(path) : path[i] = c /\ \A j \in 1..(i - 1) : path[j] # c)
    ELSE None

\* path.split_at(mid)
split_at(path, mid) == <<SubSeq(path, 1, mid), SubSeq(path, mid + 1, Len(path))>>

\* to_bencode of either side of the Result.
bencode_result(result) == <<"bencoded", result>>

\* What one run of handle does: the body it sends, whether it panics, and the
\* call it makes on the tracker. tracker_result is what handle_announce or
\* handle_scrape answers when called.
Answer(resp, made) ==
    [panicked |-> FALSE, sent |-> Some(bencode_result(resp)), tracker_call |-> made]
Unwound == [panicked |-> TRUE, sent |-> None, tracker_call |-> None]

handle(r, tracker_result) ==
    IF r.uri = "AbsolutePath"
    THEN LET i == find(r.path, "?")
         IN  IF i # None
             THEN LET action == split_at(r.path, i[1])[1]
                  IN  CASE action = <<"/announce", "?">> ->
                             LET announce == request_to_announce(r, r.param_vec)
                             IN  IF announce.ok
                                 THEN Answer(tracker_result, <<"handle_announce", announce.val>>)
                                 ELSE Unwound
                        [] action = <<"/scrape", "?">> ->
                             Answer(tracker_result, <<"handle_scrape", r.param_vec>>)
                        [] OTHER -> Answer(Err(BadAction), None)
             ELSE Answer(Err(BadRequest), None)
    ELSE Answer(Err(BadAction), None)

\* What the tracker answers to handle_announce and handle_scrape.
TrackerResults == {Ok("response"), Err(BadRequest)}

\* ---- the requests ----
KeyOrder == <<"info_hash", "peer_id", "uploaded", "downloaded", "left", "port",
              "event", "numwant", "ip", "ipv4", "ipv6">>
Required == {"info_hash", "peer_id", "uploaded", "downloaded", "left", "port"}

\* The pairs form_urlencoded::parse yields for a query with the parameters m.
RECURSIVE pairs_from(_, _)
pairs_from(m, i) ==
    IF i > Len(KeyOrder) THEN <<>>
    ELSE (IF KeyOrder[i] \in DOMAIN m THEN <<<<KeyOrder[i], m[KeyOrder[i]]>>>> ELSE <<>>)
            \o pairs_from(m, i + 1)

BaseParams ==
    [k \in Required |->
        CASE k = "info_hash" -> "AAAAAAAAAAAAAAAAAAAA"
          [] k = "peer_id"   -> "P1"
          [] k = "port"      -> "6881"
          [] k = "left"      -> "1000"
          [] OTHER           -> "0"]

\* Optional parameters: Absent leaves the key out.
Absent == "<absent>"
With(m, k, v) == IF v = Absent THEN m ELSE Insert(m, k, v)

\* Announce parameters with one required parameter missing or unparsable.
DefectiveParams ==
    {Remove(BaseParams, k) : k \in Required}
    \cup {Insert(BaseParams, k, v) : k \in Required \ {"info_hash", "peer_id"},
                                     v \in {"abc", "-1"}}
    \cup {Insert(BaseParams, "port", "70000")}

\* Announce parameters that differ in event, left and numwant.
ActionParams ==
    {With(With(Insert(BaseParams, "left", l), "event", e), "numwant", n) :
        l \in {"0", "1000"},
        e \in {Absent, "started", "stopped", "completed", "paused"},
        n \in {Absent, "0", "25", "26", "99", "255", "256", "-1", "abc"}}

\* Announce parameters that differ in the addresses given.
AddressParams ==
    {With(With(With(BaseParams, "ip", a), "ipv4", b), "ipv6", c) :
        a \in {Absent, "198.51.100.9", "2001:db8::9", "not-an-ip"},
        b \in {Absent, "192.0.2.4", "192.0.2.4:7000"},
        c \in {Absent, "2001:db8::6", "[2001:db8::6]:7000"}}

RemoteAddrs ==
    {[v |-> 4, ip |-> <<203, 0, 113, 5>>, port |-> 51234],
     [v |-> 6, ip |-> <<8193, 3512, 0, 0, 0, 0, 0, 5>>, port |-> 51234]}

ForwardedFor == {None, Some("198.51.100.7"), Some("unknown"), Some(NotUtf8)}

Request(uri, path, m, remote, xff) ==
    [uri |-> uri, path |-> path, param_vec |-> pairs_from(m, 1),
     remote_addr |-> remote, x_forwarded_for |-> xff]

Requests ==
    {Request("AbsolutePath", <<"/announce", "?", "query">>, m, remote, xff) :
        m \in DefectiveParams \cup ActionParams \cup AddressParams,
        remote \in RemoteAddrs, xff \in ForwardedFor}
    \cup {Request(uri, path, m, remote, None) :
            uri \in {"AbsolutePath", "AbsoluteUri", "Star"},
            path \in {<<"/announce">>, <<"/scrape">>, <<"/">>,
                      <<"/scrape", "?", "query">>, <<"/stats", "?", "query">>,
                      <<"/announce", "?", "query">>},
            m \in {BaseParams, EmptyMap},
            remote \in RemoteAddrs}

InitRoute ==
    /\ req = None
    /\ sent = None
    /\ panicked = FALSE
    /\ tracker_call = None

\* RequestHandler::handle(req, res) runs on the next request.
Handle(r, tracker_result) ==
    /\ req = None
    /\ \E out \in {handle(r, tracker_result)} :
           /\ req' = Some(r)
           /\ sent' = out.sent
           /\ panicked' = out.panicked
           /\ tracker_call' = out.tracker_call
    /\ UNCHANGED <<tvars, gvars, cvars>>

\* The request is over; the handler keeps nothing of it.
Served ==
    /\ req # None
    /\ req' = None
    /\ sent' = None
    /\ panicked' = FALSE
    /\ tracker_call' = None
    /\ UNCHANGED <<tvars, gvars, cvars>>

NextRoute ==
    \/ \E r \in Requests, tracker_result \in TrackerResults : Handle(r, tracker_result)
    \/ Served

\* ------------------------------------------------------------- PeerCodec
\* A port and a segment of an IPv6 address are u16.
MaxU16 == 65535

\* The addresses encoded: the octets and segments 0 and the greatest, values
\* on both sides of a byte boundary, and the addresses of the peers above.
V4Addrs == {<<0, 0, 0, 0>>, <<255, 255, 255, 255>>, <<203, 0, 113, 5>>}
V6Addrs == {<<0, 0, 0, 0, 0, 0, 0, 0>>,
            <<65535, 65535, 65535, 65535, 65535, 65535, 65535, 65535>>,
            <<8193, 3512, 255, 256, 257, 65280, 0, 1>>}

InitCodec ==
    /\ endpoint = None
    /\ encoded = None

\* v4_to_bytes(&v4) is called on the endpoint of a peer.
EncodeV4 ==
    /\ endpoint = None
    /\ \E a \in V4Addrs, p \in 0..MaxU16 :
          \E s \in {[ip |-> a, port |-> p]} :
             /\ endpoint' = Some([v |-> 4, ip |-> s.ip, port |-> s.port])
             /\ encoded' = Some(v4_to_bytes(s))
    /\ UNCHANGED <<tvars, gvars, rvars>>

\* v6_to_bytes(&v6) is called on the endpoint of a peer.
EncodeV6 ==
    /\ endpoint = None
    /\ \E a \in V6Addrs, p \in 0..MaxU16 :
          \E s \in {[ip |-> a, port |-> p]} :
             /\ endpoint' = Some([v |-> 6, ip |-> s.ip, port |-> s.port])
             /\ encoded' = Some(v6_to_bytes(s))
    /\ UNCHANGED <<tvars, gvars, rvars>>

\* The bytes are moved into the peers or peers6 Vec by append.
Appended ==
    /\ endpoint # None
    /\ endpoint' = None
    /\ encoded' = None
    /\ UNCHANGED <<tvars, gvars, rvars>>

NextCodec ==
    \/ EncodeV4
    \/ EncodeV6
    \/ Appended

\* ---------------------------------------------------------- specifications
Init == InitTorrent /\ InitGate /\ InitRoute /\ InitCodec

\* One torrent under update, get_peers and reap.
Next == NextTorrent

Spec == Init /\ [][Next]_vars

\* Threads calling add_announce and flush on one PrivateTracker.
SpecGate == Init /\ [][NextGate]_vars

\* The same threads when a holder of the guard may panic. A thread that can
\* take its next step takes it in the end; the calls being finitely many, a
\* thread waiting for the mutex finds it free for good once the others are
\* done.
SpecPoison ==
    /\ Init /\ [][NextPoison]_vars
    /\ \A t \in Threads : WF_vars(Proceed(t))

\* Requests handled by RequestHandler::handle.
SpecRoute == Init /\ [][NextRoute]_vars

\* Endpoints encoded by v4_to_bytes and v6_to_bytes.
SpecCodec == Init /\ [][NextCodec]_vars

\* =================================================================== claims
IsUpdate(action) == call.op = "update" /\ call.a.action = action

InBoth(p) == p \in DOMAIN seeders /\ p \in DOMAIN leechers

\* C1: in every reachable state each peer_id is a key of at most one of the
\* two maps seeders and leechers.
C1_OneRolePerPeer == \A p \in PeerIds : ~InBoth(p)

\* C2: a Completed announce that repeats the previous one, for a peer that is
\* already in seeders and not in leechers, leaves the snatch counter as it was.
C2_RepeatedCompletedKeepsSnatches ==
    (IsUpdate("Completed") /\ call.pre.repeat
       /\ call.pre.in_seeders /\ ~call.pre.in_leechers)
        => snatches = call.pre.snatches

\* C3: after a Completed announce of a peer that was in leechers, the peer is
\* in seeders, is not in leechers, and the snatch counter is one greater.
C3_CompletedMovesLeecher ==
    (IsUpdate("Completed") /\ call.pre.in_leechers)
        => /\ call.a.peer_id \in DOMAIN seeders
           /\ call.a.peer_id \notin DOMAIN leechers
           /\ snatches = call.pre.snatches + 1

\* P1 was a leecher, completed, and the snatch counter went from 0 to 1.
C3_Witness ==
    /\ IsUpdate("Completed") /\ call.a.peer_id = "P1"
    /\ call.pre.in_leechers /\ ~call.pre.in_seeders /\ call.pre.snatches = 0
    /\ "P1" \in DOMAIN seeders /\ snatches = 1

\* C4: after a Stopped announce the peer is in neither map, whatever its
\* membership was before.
C4_StoppedRemoves ==
    IsUpdate("Stopped")
        => call.a.peer_id \notin DOMAIN seeders /\ call.a.peer_id \notin DOMAIN leechers

\* A Stopped announce of a peer that was in both maps.
C4_Witness ==
    /\ IsUpdate("Stopped") /\ call.pre.in_seeders /\ call.pre.in_leechers
    /\ call.a.peer_id \notin DOMAIN seeders \cup DOMAIN leechers

\* The peers of a map that have at least one endpoint.
WithEndpoint(m) == {p \in DOMAIN m : m[p].ipv4 # None \/ m[p].ipv6 # None}

EntryOf(e) == IF e.role = "seeder" THEN seeders[e.id] ELSE leechers[e.id]

\* The bytes the selected peers contribute to peers4 and to peers6, in order.
RECURSIVE Bytes4(_)
Bytes4(sel) ==
    IF sel = <<>> THEN <<>>
    ELSE (IF EntryOf(Head(sel)).ipv4 # None THEN v4_to_bytes(EntryOf(Head(sel)).ipv4[1])
                                            ELSE <<>>) \o Bytes4(Tail(sel))

RECURSIVE Bytes6(_)
Bytes6(sel) ==
    IF sel = <<>> THEN <<>>
    ELSE (IF EntryOf(Head(sel)).ipv6 # None THEN v6_to_bytes(EntryOf(Head(sel)).ipv6[1])
                                            ELSE <<>>) \o Bytes6(Tail(sel))

IsGetPeers(action) == call.op = "get_peers" /\ call.action = action

\* C5: get_peers(amount, Leeching) selects at most amount peers, so peers4
\* holds at most amount 6-byte entries and peers6 at most amount 18-byte
\* entries; it selects a leecher only when fewer than amount seeders with an
\* endpoint exist; and every selected seeder comes before any selected leecher.
C5_LeechingGetsSeedersFirst ==
    IsGetPeers("Leeching")
        => /\ Len(ret.sel) <= call.amount
           /\ ret.peers4 = Bytes4(ret.sel) /\ ret.peers6 = Bytes6(ret.sel)
           /\ Len(ret.peers4) % 6 = 0 /\ Len(ret.peers4) <= 6 * call.amount
           /\ Len(ret.peers6) % 18 = 0 /\ Len(ret.peers6) <= 18 * call.amount
           /\ \A i \in 1..Len(ret.sel) :
                 EntryOf(ret.sel[i]).ipv4 # None \/ EntryOf(ret.sel[i]).ipv6 # None
           /\ (\E i \in 1..Len(ret.sel) : ret.sel[i].role = "leecher")
                 => Cardinality(WithEndpoint(seeders)) < call.amount
           /\ \A i, j \in 1..Len(ret.sel) :
                 (i < j /\ ret.sel[i].role = "leecher") => ret.sel[j].role = "leecher"

\* A request for two peers served one seeder and then, the seeders exhausted,
\* one leecher.
C5_Witness ==
    /\ IsGetPeers("Leeching") /\ call.amount = 2
    /\ Len(ret.sel) = 2
    /\ ret.sel[1].role = "seeder" /\ ret.sel[2].role = "leecher"
    /\ Len(ret.peers4) = 6 /\ Len(ret.peers6) = 36

StaleAt(peer) == now - peer.last_action > Window

\* The map m was reaped into m2: the entries older than the window are gone,
\* the others are there as they were.
Reaped(m, m2) ==
    /\ \A k \in DOMAIN m : StaleAt(m[k]) => k \notin DOMAIN m2
    /\ \A k \in DOMAIN m : ~StaleAt(m[k]) => (k \in DOMAIN m2 /\ m2[k] = m[k])
    /\ DOMAIN m2 \subseteq DOMAIN m

\* C6: reap removes from each map exactly the peers whose last activity is
\* more than 3600 seconds before now; the others stay where they were,
\* unchanged.
C6_ReapRemovesStaleOnly ==
    call.op = "reap"
        => /\ Reaped(call.pre.seeders, seeders)
           /\ Reaped(call.pre.leechers, leechers)

\* A reap that removed an entry 3601 seconds old from one map and kept a
\* younger entry of the other peer.
C6_Witness ==
    /\ call.op = "reap"
    /\ \E k \in DOMAIN call.pre.leechers :
          /\ now - call.pre.leechers[k].last_action = Window + 1
          /\ k \notin DOMAIN leechers
          /\ \E q \in DOMAIN seeders : q # k /\ seeders[q] = call.pre.seeders[q]

\* The elements of a sequence, and how often x occurs in it.
Range(q) == {q[i] : i \in 1..Len(q)}
Count(q, x) == Cardinality({i \in 1..Len(q) : q[i] = x})

\* How many times delta d is held: in the buffer, in the Vec a flush took, or
\* still in the hands of an add_announce call that has not pushed it yet.
Held(d) ==
    Count(deltas, d)
    + Cardinality({i \in 1..Len(swapped) : d \in Range(swapped[i])})
    + Cardinality({t \in Adders : local[t] = <<d>>})

\* C7: no delta is lost or duplicated: every delta passed to add_announce is
\* with the caller that has yet to push it, in the buffer, or in the Vec of
\* exactly one flush, and in one of these only; no Vec holds it twice; and the
\* buffer holds only deltas pushed after the latest swap, each Vec taken only
\* deltas pushed since the swap before it.
C7_NoDeltaLostOrDuplicated ==
    /\ \A d \in 1..issued : Held(d) = 1
    /\ \A i \in 1..Len(swapped) : \A d \in Range(swapped[i]) : Count(swapped[i], d) = 1
    /\ \A i \in 1..Len(deltas) : pushedAfter[deltas[i]] = Len(swapped)
    /\ \A i \in 1..Len(swapped) : \A d \in Range(swapped[i]) : pushedAfter[d] = i - 1

\* One flush has taken a delta, a delta pushed since is in the buffer, and a
\* second flush holds the lock before its swap while an add_announce waits
\* for the lock with a third delta.
C7_Witness ==
    /\ Len(swapped) = 1 /\ swapped[1] # <<>>
    /\ deltas # <<>>
    /\ \E f \in Flushers : pc[f] = "swap" /\ mutex = f
    /\ \E t \in Adders : pc[t] = "lock" /\ local[t] # <<>>

\* The request handled is an announce request: its path is "/announce?" and
\* a query.
IsAnnounceRequest ==
    /\ req # None
    /\ req[1].uri = "AbsolutePath"
    /\ Len(req[1].path) >= 2 /\ req[1].path[1] = "/announce" /\ req[1].path[2] = "?"

Params == params_of(req[1].param_vec)

\* C8: a request whose path has no '?' is answered with the error BadAction.
C8_NoQueryIsBadAction ==
    (/\ req # None /\ req[1].uri = "AbsolutePath"
     /\ \A i \in 1..Len(req[1].path) : req[1].path[i] # "?")
        => sent = Some(bencode_result(Err(BadAction)))

\* A required parameter of the announce request is missing or does not parse.
RequiredDefect ==
    \/ \E k \in Required : k \notin DOMAIN Params
    \/ \E k \in {"uploaded", "downloaded", "left"} :
          k \in DOMAIN Params /\ ~Parse("u64", Params[k]).ok
    \/ "port" \in DOMAIN Params /\ ~Parse("u16", Params["port"]).ok

\* C9: an announce request with a required parameter missing or unparsable
\* ends with a BadRequest error response sent; the handler does not abort and
\* makes no call on the tracker.
C9_BadParameterAnswered ==
    (IsAnnounceRequest /\ RequiredDefect)
        => /\ sent = Some(bencode_result(Err(BadRequest)))
           /\ ~panicked
           /\ tracker_call = None

\* C10: for an announce with no ip parameter and no forwarded header, sent
\* over an IPv4 connection, the ipv4 endpoint of the Announce is the remote
\* address with the announced port.
C10_RemoteAddressWithAnnouncedPort ==
    (/\ IsAnnounceRequest /\ ~RequiredDefect
     /\ "ip" \notin DOMAIN Params
     /\ req[1].x_forwarded_for = None
     /\ req[1].remote_addr.v = 4)
        => /\ tracker_call # None
           /\ tracker_call[2].ipv4 =
                Some([v |-> 4, ip |-> req[1].remote_addr.ip,
                      port |-> Parse("u16", Params["port"]).val])

\* The Announce handed to handle_announce for a well-formed announce request.
Announced == tracker_call[2]
WellFormedAnnounce == IsAnnounceRequest /\ ~RequiredDefect

EventOf == IF "event" \in DOMAIN Params THEN Params["event"] ELSE Absent
LeftOf == NumeralValue(Params["left"])

\* C11: the action of an Announce follows from event and left: event stopped
\* gives Stopped and event completed gives Completed whatever left is; event
\* started, no event and any other event give Seeding when left is 0 and
\* Leeching when left is greater than 0.
C11_ActionFromEventAndLeft ==
    WellFormedAnnounce
        => /\ tracker_call # None
           /\ tracker_call[1] = "handle_announce"
           /\ EventOf = "stopped" => Announced.action = "Stopped"
           /\ EventOf = "completed" => Announced.action = "Completed"
           /\ (EventOf \notin {"stopped", "completed"} /\ LeftOf = 0)
                 => Announced.action = "Seeding"
           /\ (EventOf \notin {"stopped", "completed"} /\ LeftOf > 0)
                 => Announced.action = "Leeching"

\* An announce with an event that is none of the three known ones and nothing
\* left to download reached the tracker as Seeding.
C11_Witness ==
    /\ WellFormedAnnounce /\ EventOf = "paused" /\ LeftOf = 0
    /\ tracker_call # None /\ Announced.action = "Seeding"

NumwantOf == IF "numwant" \in DOMAIN Params THEN Params["numwant"] ELSE Absent

\* C12: the numwant of an Announce is in 0..25: a numwant parameter that is
\* an unsigned 8-bit integer n gives min(n, 25); an absent one, or one that is
\* not an unsigned 8-bit integer, gives 25.
C12_NumwantAtMost25 ==
    WellFormedAnnounce
        => /\ tracker_call # None
           /\ Announced.numwant \in 0..25
           /\ (NumwantOf \in Numerals /\ NumeralValue(NumwantOf) <= 255)
                 => Announced.numwant =
                        (IF NumeralValue(NumwantOf) < 25 THEN NumeralValue(NumwantOf) ELSE 25)
           /\ (NumwantOf \notin Numerals \/ NumeralValue(NumwantOf) > 255)
                 => Announced.numwant = 25

\* An announce with numwant=99 reached the tracker with numwant 25.
C12_Witness ==
    /\ WellFormedAnnounce /\ NumwantOf = "99"
    /\ tracker_call # None /\ Announced.numwant = 25

\* The address the announce is attributed to: the ip parameter when it is an
\* address, otherwise the forwarded header's first value when it is one,
\* otherwise the address of the connection.
PrimaryAddress ==
    IF "ip" \in DOMAIN Params /\ Params["ip"] \in IpLiterals
    THEN IpValue(Params["ip"])
    ELSE IF /\ req[1].x_forwarded_for # None
            /\ req[1].x_forwarded_for[1] \in IpLiterals
         THEN IpValue(req[1].x_forwarded_for[1])
         ELSE [v |-> req[1].remote_addr.v, ip |-> req[1].remote_addr.ip]

\* C13: the primary address of an Announce is the ip parameter when it parses
\* as an IP address, otherwise the first X-Forwarded-For value when it parses
\* as one, otherwise the remote address; it fills the field of its own
\* family, so every Announce has at least one of ipv4 and ipv6.
C13_PrimaryAddressPrecedence ==
    WellFormedAnnounce
        => /\ tracker_call # None
           /\ Announced.ipv4 # None \/ Announced.ipv6 # None
           /\ PrimaryAddress.v = 4
                 => /\ Announced.ipv4 # None
                    /\ Announced.ipv4[1].v = 4
                    /\ Announced.ipv4[1].ip = PrimaryAddress.ip
           /\ PrimaryAddress.v = 6
                 => /\ Announced.ipv6 # None
                    /\ Announced.ipv6[1].v = 6
                    /\ Announced.ipv6[1].ip = PrimaryAddress.ip

\* An announce over an IPv4 connection with a forwarded IPv4 address and an
\* IPv6 ip parameter reached the tracker with the parameter's address as its
\* ipv6 endpoint.
C13_Witness ==
    /\ WellFormedAnnounce
    /\ "ip" \in DOMAIN Params /\ Params["ip"] = "2001:db8::9"
    /\ req[1].x_forwarded_for = Some("198.51.100.7")
    /\ req[1].remote_addr.v = 4
    /\ tracker_call # None
    /\ Announced.ipv6 # None /\ Announced.ipv6[1].ip = <<8193, 3512, 0, 0, 0, 0, 0, 9>>

\* The mutex is held only by a thread that is about to use the buffer or to
\* drop the guard, and a thread waiting for the free mutex can take it.
LockUsable ==
    /\ mutex # Free => pc[mutex] \in {"push", "swap", "unlock"}
    /\ \A t \in Threads :
          (pc[t] = "lock" /\ mutex = Free) => ENABLED (AddAnnounceLock(t) \/ FlushLock(t))

\* What a thread that got the guard of the poisoned mutex does with it:
\* add_announce appends its delta to the buffer, flush takes the whole buffer
\* and leaves it empty.
OperatesAfterPoison ==
    \A t \in Threads :
        /\ (pc[t] = "lock" /\ pc'[t] # "lock")
              => (mutex' = t /\ pc'[t] \in {"push", "swap"})
        /\ (pc[t] = "push" /\ pc'[t] = "unlock")
              => deltas' = Append(deltas, local[t][1])
        /\ (pc[t] = "swap" /\ pc'[t] = "unlock")
              => /\ deltas' = <<>>
                 /\ local'[t] = deltas
                 /\ swapped' = Append(swapped, deltas)

\* C14: once a holder of the guard has panicked and poisoned the mutex, a
\* later add_announce or flush still acquires the lock and operates on the
\* buffer: add_announce appends its delta, flush takes and clears the buffer;
\* the lock() of neither fails, and neither waits for the lock forever.
C14_PoisonedLockRecovered ==
    /\ [](poisoned => LockUsable)
    /\ [][poisoned => OperatesAfterPoison]_vars
    /\ \A t \in Threads : (poisoned /\ pc[t] = "lock") ~> (mutex = t)

\* A flush took a delta at the first swap and panicked before it dropped the
\* guard; nothing was pushed or swapped between that swap and the panic, so
\* the delta a second flush has taken at the second swap was pushed by an
\* add_announce that locked the poisoned mutex, as did the second flush,
\* which holds the guard with the buffer left empty.
C14_Witness ==
    /\ poisoned
    /\ Len(swapped) = 2
    /\ \E g \in Flushers : pc[g] = "dead" /\ local[g] # <<>> /\ local[g] = swapped[1]
    /\ \E f \in Flushers :
          /\ mutex = f /\ pc[f] = "unlock"
          /\ local[f] # <<>> /\ local[f] = swapped[2]
          /\ \A i \in 1..Len(local[f]) : pushedAfter[local[f][i]] = 1
    /\ deltas = <<>>

\* Reading a compact peer entry: the address, then the port, each 16-bit
\* value with its high byte first.
U16At(bytes, i) == bytes[i] * 256 + bytes[i + 1]
Decode4(bytes) == [v |-> 4, ip |-> SubSeq(bytes, 1, 4), port |-> U16At(bytes, 5)]
Decode6(bytes) ==
    [v |-> 6, ip |-> [k \in 1..8 |-> U16At(bytes, 2 * k - 1)], port |-> U16At(bytes, 17)]

\* C15: an IPv4 endpoint is encoded as exactly 6 bytes, the 4 octets and then
\* the port with its high byte first, and an IPv6 endpoint as exactly 18
\* bytes, each of the 8 segments with its high byte first and then the port
\* likewise; decoding the bytes gives back the address and the port, for every
\* port in 0..65535.
C15_CodecRoundTrip ==
    endpoint # None
        => /\ \A i \in 1..Len(encoded[1]) : encoded[1][i] \in 0..255
           /\ endpoint[1].v = 4
                 => /\ Len(encoded[1]) = 6
                    /\ SubSeq(encoded[1], 1, 4) = endpoint[1].ip
                    /\ encoded[1][5] = endpoint[1].port \div 256
                    /\ encoded[1][6] = endpoint[1].port % 256
                    /\ Decode4(encoded[1]) = endpoint[1]
           /\ endpoint[1].v = 6
                 => /\ Len(encoded[1]) = 18
                    /\ \A k \in 1..8 :
                          /\ encoded[1][2 * k - 1] = endpoint[1].ip[k] \div 256
                          /\ encoded[1][2 * k] = endpoint[1].ip[k] % 256
                    /\ encoded[1][17] = endpoint[1].port \div 256
                    /\ encoded[1][18] = endpoint[1].port % 256
                    /\ Decode6(encoded[1]) = endpoint[1]

\* An IPv6 endpoint with segments on both sides of a byte boundary and port
\* 6881 = 26 * 256 + 225 was encoded as 18 bytes ending in 26, 225.
C15_Witness ==
    /\ endpoint # None /\ endpoint[1].v = 6 /\ endpoint[1].port = 6881
    /\ endpoint[1].ip = <<8193, 3512, 255, 256, 257, 65280, 0, 1>>
    /\ Len(encoded[1]) = 18
    /\ SubSeq(encoded[1], 5, 12) = <<0, 255, 1, 0, 1, 1, 255, 0>>
    /\ encoded[1][17] = 26 /\ encoded[1][18] = 225

\* C16: when a peer that is in leechers and not in seeders announces Seeding,
\* or one that is in seeders and not in leechers announces Leeching, update
\* leaves its entry in the map it is in, refreshed, and adds no entry for it
\* to the other map.
C16_RoleMismatchRefreshesInPlace ==
    /\ (IsUpdate("Seeding") /\ call.pre.in_leechers /\ ~call.pre.in_seeders)
          => /\ call.a.peer_id \notin DOMAIN seeders
             /\ call.a.peer_id \in DOMAIN leechers
             /\ leechers[call.a.peer_id].last_action = now
    /\ (IsUpdate("Leeching") /\ call.pre.in_seeders /\ ~call.pre.in_leechers)
          => /\ call.a.peer_id \notin DOMAIN leechers
             /\ call.a.peer_id \in DOMAIN seeders
             /\ seeders[call.a.peer_id].last_action = now

\* The step is an update call with this action for a peer that was in neither
\* map.
UpdatesAbsent(action) ==
    /\ call'.op = "update" /\ call'.a.action = action
    /\ call'.a.peer_id \notin DOMAIN seeders \cup DOMAIN leechers

\* C17: a Stopped announce for a peer that is in neither map leaves seeders,
\* leechers and snatches as they were, sets the torrent's last_action to the
\* clock, and returns a fresh empty Delta for that peer_id.
C17_StoppedAbsentIsNoOp ==
    [][UpdatesAbsent("Stopped")
          => /\ seeders' = seeders
             /\ leechers' = leechers
             /\ snatches' = snatches
             /\ last_action' = now
             /\ ret' = DeltaNew(call'.a.peer_id)]_vars

\* P2, in neither map, announced Stopped at time 3600 on a torrent with P1 in
\* seeders and one snatch; the Delta returned is a fresh one for P2.
C17_Witness ==
    /\ IsUpdate("Stopped") /\ call.a.peer_id = "P2"
    /\ ~call.pre.in_seeders /\ ~call.pre.in_leechers
    /\ "P1" \in DOMAIN seeders /\ snatches = 1 /\ call.pre.snatches = 1
    /\ now = Window /\ last_action = now
    /\ ret = DeltaNew("P2")

\* The map m2 is m with the key p added and the other entries as they were.
Added(m, m2, p) ==
    /\ DOMAIN m2 = DOMAIN m \cup {p}
    /\ \A q \in DOMAIN m : m2[q] = m[q]

\* C18: for a peer that is in neither map, Seeding inserts it into seeders and
\* Leeching into leechers, snatches unchanged, and Completed inserts it into
\* seeders and adds 1 to snatches; the other map and the entries of the other
\* peers stay as they were.
C18_AbsentPeerInserted ==
    [][/\ UpdatesAbsent("Seeding")
            => /\ Added(seeders, seeders', call'.a.peer_id)
               /\ leechers' = leechers
               /\ snatches' = snatches
       /\ UpdatesAbsent("Leeching")
            => /\ Added(leechers, leechers', call'.a.peer_id)
               /\ seeders' = seeders
               /\ snatches' = snatches
       /\ UpdatesAbsent("Completed")
            => /\ Added(seeders, seeders', call'.a.peer_id)
               /\ leechers' = leechers
               /\ snatches' = snatches + 1]_vars

\* P2, in neither map, announced Completed on a torrent with P1 in leechers:
\* P2 is in seeders only, P1 still in leechers only, and snatches went from 0
\* to 1.
C18_Witness ==
    /\ IsUpdate("Completed") /\ call.a.peer_id = "P2"
    /\ ~call.pre.in_seeders /\ ~call.pre.in_leechers /\ call.pre.snatches = 0
    /\ DOMAIN seeders = {"P2"} /\ DOMAIN leechers = {"P1"}
    /\ snatches = 1

\* C19: get_peers(amount, Stopped) returns empty peers4 and peers6; for
\* Seeding and for Completed it selects at most amount peers, a seeder only
\* when fewer than amount leechers with an endpoint exist, and every selected
\* leecher comes before any selected seeder.
C19_SeedingGetsLeechersFirst ==
    /\ IsGetPeers("Stopped") => (ret.peers4 = <<>> /\ ret.peers6 = <<>>)
    /\ (IsGetPeers("Seeding") \/ IsGetPeers("Completed"))
          => /\ Len(ret.sel) <= call.amount
             /\ ret.peers4 = Bytes4(ret.sel) /\ ret.peers6 = Bytes6(ret.sel)
             /\ Len(ret.peers4) <= 6 * call.amount /\ Len(ret.peers6) <= 18 * call.amount
             /\ \A i \in 1..Len(ret.sel) :
                   EntryOf(ret.sel[i]).ipv4 # None \/ EntryOf(ret.sel[i]).ipv6 # None
             /\ (\E i \in 1..Len(ret.sel) : ret.sel[i].role = "seeder")
                   => Cardinality(WithEndpoint(leechers)) < call.amount
             /\ \A i, j \in 1..Len(ret.sel) :
                   (i < j /\ ret.sel[i].role = "seeder") => ret.sel[j].role = "seeder"

\* A Completed request for two peers served the one leecher and then a seeder
\* that is another peer.
C19_Witness ==
    /\ IsGetPeers("Completed") /\ call.amount = 2
    /\ Len(ret.sel) = 2
    /\ ret.sel[1].role = "leecher" /\ ret.sel[2].role = "seeder"
    /\ ret.sel[1].id # ret.sel[2].id
    /\ ret.peers4 # <<>> /\ ret.peers6 # <<>>

\* C20: the peers one get_peers call selects are distinct: no peer_id
\* contributes to the result twice.
C20_NoPeerTwiceInResult ==
    call.op = "get_peers"
        => \A i, j \in 1..Len(ret.sel) : i # j => ret.sel[i].id # ret.sel[j].id

====
